---------------------------- MODULE Spec2Model ----------------------------
(***************************************************************************)
(* State-machine model of the cryptowallet services:                       *)
(*   BtcServiceV1 (src/src/btc/v1/btc.service.ts): send, balance,          *)
(*     transactions, with calculateAverageFee and                          *)
(*     getPreviousTransactionHashAndOutputIndex;                           *)
(*   Web3Service (src/unnamed/part_000): send, balance, with               *)
(*     calculateEstimateGasFees.                                           *)
(* Every request is one stateless unit of work.  A request r has an        *)
(* operation op[r], its input dto[r], its position pc[r] (the await it is  *)
(* suspended at), its local variables loc[r], the external calls it has    *)
(* issued so far calls[r], and its outcome result[r].  The services keep no *)
(* state of their own between requests; what requests share is the world   *)
(* outside: explorer, the block explorer and broadcast provider.           *)
(***************************************************************************)
EXTENDS Integers, Sequences, FiniteSets, TLC

VARIABLES op, pc, dto, loc, calls, result, explorer

vars == <<op, pc, dto, loc, calls, result, explorer>>

(***************************************************************************)
(* Bounds of the model.                                                    *)
(***************************************************************************)
MaxFee == 2          \* fee-per-byte rates (override and estimator) 1..MaxFee
MaxTxs == 2          \* transactions in a fetched address history
MaxOuts == 2         \* outputs of one transaction of the history
MaxTxSize == 2       \* byteLength() of the built transaction, 1..MaxTxSize
MaxBalanceFrac == 10 \* explorer balances: 0..MaxBalanceFrac satoshi above a whole coin
MaxHashes == 2       \* hashes in the dashboard's transaction list
MaxGas == 3          \* gas-limit overrides and gas estimates 1..MaxGas
MaxEvents == 2       \* events the network emits for one submitted payload
MaxSharedTxs == 1    \* transactions of the history two concurrent sends share

(***************************************************************************)
(* Program constants.                                                      *)
(***************************************************************************)
SatoshiPerCoin == 100000000
DefaultCoinGas == 63000
WeiDecimals == 18

Range(s) == {s[i] : i \in DOMAIN s}

(***************************************************************************)
(* Outcomes.  A failure is the HttpException built by the outermost catch  *)
(* of an operation: it carries e.message.  A soft outcome is the           *)
(* {status:false, message} payload.  An escaped outcome is an error thrown *)
(* outside every try block of the operation.                               *)
(***************************************************************************)
NoResult == [kind |-> "none", message |-> "", data |-> <<>>]
Success(d) == [kind |-> "success", message |-> "", data |-> d]
Soft(m) == [kind |-> "soft", message |-> m, data |-> <<>>]
Failure(m) == [kind |-> "failure", message |-> m, data |-> <<>>]
Escaped(m) == [kind |-> "escaped", message |-> m, data |-> <<>>]

MsgIncorrectRecipient == "Incorrect recipient address"
MsgIncorrectAddress == "Incorrect address"
MsgIncorrectContract == "Incorrect contract address"
MsgNoPrevious == "No previous transactions found"
MsgNoOutput == "Previous output not found"
MsgInsufficient == "Insufficient coin balance"
MsgAddressNotFound == "Address not found"
MsgConflictIn == "Invalid transaction. Error: txn-mempool-conflict"
MsgConflictOut == "You have an incomplete transaction. Wait until the previous transaction is completed"
MsgNetwork == "Network Error"
MsgNullBalance == "Cannot read properties of null (reading 'balance')"
MsgNoResponse == "Cannot read properties of undefined (reading 'data')"
MsgBadWIF == "Invalid checksum"
OutputMissing(i) == "Output with index " \o ToString(i) \o " does not exist."

(***************************************************************************)
(* Amounts in human units: whole coins and a fraction counted in satoshi.  *)
(***************************************************************************)
Human(w, f) == [whole |-> w, frac |-> f]

convertToSatoshi(h) == h.whole * SatoshiPerCoin + h.frac

convertFromSatoshi(s) == Human(s \div SatoshiPerCoin, s % SatoshiPerCoin)

HumanAdd(a, b) ==
  LET f == a.frac + b.frac
  IN  Human(a.whole + b.whole + f \div SatoshiPerCoin, f % SatoshiPerCoin)

HumanLess(a, b) ==
  \/ a.whole < b.whole
  \/ a.whole = b.whole /\ a.frac < b.frac

(***************************************************************************)
(* Inputs and external responses of the UTXO engine.                       *)
(***************************************************************************)
BtcValidAddresses == {"a1", "a2"}
BtcAddresses == BtcValidAddresses \cup {"bad"}
PrivateKeys == {"k1", "badkey"}
FeeOverrides ==
  {[present |-> FALSE, value |-> 0]} \cup
  {[present |-> TRUE, value |-> v] : v \in 0..MaxFee}
BtcAmounts == {Human(0, 2), Human(0, 3), Human(1, 0)}
TxHash(i) == IF i = 1 THEN "h1" ELSE IF i = 2 THEN "h2" ELSE "h3"
TxSizes == 1..MaxTxSize

\* faulty variant: the override is never taken
FeeGivenNever(fee) == FALSE

\* sendBtcDto.fee || ...: an absent (undefined) fee and a fee of 0 are falsy
FeeGiven(fee) == fee.present /\ fee.value # 0

\* bitcoin-address-validation's validate
validate(address) == address \in BtcValidAddresses

\* bitcoin.ECPair.fromWIF throws on a key that is not valid WIF
ValidWIF(privateKey) == privateKey = "k1"

getAddressFromPrivateKey(privateKey) == "a1"

\* the outputs of one transaction of the history: each lists one address
OutputLists ==
  UNION {[1..n -> [addresses : {{"a1"}, {"a2"}}]] : n \in 1..MaxOuts}

\* GET /addrs/{address}/full: the transaction list, the i-th with hash TxHash(i)
Histories ==
  UNION {{[i \in 1..n |-> [hash |-> TxHash(i), outputs |-> os[i]]] :
            os \in [1..n -> OutputLists]} : n \in 0..MaxTxs}

BalanceChoices ==
  {w * SatoshiPerCoin + f : w \in 0..1, f \in 0..MaxBalanceFrac}

RejectTexts ==
  {MsgConflictIn, "Invalid transaction. Error: bad-txns-inputs-missingorspent",
   "txn-mempool-conflict"}

(***************************************************************************)
(* The transaction under construction (bitcoinjs TransactionBuilder and    *)
(* Transaction): inputs, outputs, and per input the outputs its signature  *)
(* was made over (SIGHASH_ALL).                                            *)
(***************************************************************************)
NoTx == [ins |-> <<>>, outs |-> <<>>, sigs |-> <<>>]

addInput(tx, hash, index) ==
  [tx EXCEPT !.ins = Append(@, [hash |-> hash, index |-> index])]

addOutput(tx, address, value) ==
  [tx EXCEPT !.outs = Append(@, [address |-> address, value |-> value])]

sign(tx, vin, key) ==
  [tx EXCEPT !.sigs = Append(@, [vin |-> vin, key |-> key, outs |-> tx.outs])]

\* faulty variant: the fee is added to the output's value
SetOutValueAdded(tx, index, value) ==
  [tx EXCEPT !.outs[index + 1].value = @ + value]

\* variant: the input is signed again after the value is set
SetOutValueResigned(tx, index, value) ==
  LET outs == [tx.outs EXCEPT ![index + 1].value = value]
  IN  [tx EXCEPT !.outs = outs,
                 !.sigs = [i \in DOMAIN tx.sigs |->
                             [tx.sigs[i] EXCEPT !.outs = outs]]]

\* builtTransaction.outs[index].value = value (index counted from 0)
SetOutValue(tx, index, value) ==
  [tx EXCEPT !.outs[index + 1].value = value]

\* builtTransaction.toHex(): the serialization of the transaction as it is now
toHex(tx) == <<"hex", tx.ins, tx.outs, tx.sigs>>

(***************************************************************************)
(* BtcServiceV1.getPreviousTransactionHashAndOutputIndex, after the        *)
(* history has been fetched: the last transaction of the list, the first   *)
(* of its outputs that lists the address.                                  *)
(***************************************************************************)
\* faulty variant: the last output that lists the address
LastMatch(outputs, address) ==
  LET matches == {i \in 1..Len(outputs) : address \in outputs[i].addresses}
  IN  IF matches = {} THEN 0
      ELSE CHOOSE i \in matches : \A j \in matches : i >= j

FirstMatch(outputs, address) ==
  LET matches == {i \in 1..Len(outputs) : address \in outputs[i].addresses}
  IN  IF matches = {} THEN 0
      ELSE CHOOSE i \in matches : \A j \in matches : i <= j

\* faulty variant: no check for an empty history
ResolvePreviousUnchecked(txs, address) ==
  LET found == IF Len(txs) = 0 THEN 0
               ELSE LastMatch(txs[Len(txs)].outputs, address)
  IN  IF found = 0
      THEN [ok |-> FALSE, message |-> MsgNoOutput, hash |-> "", index |-> -1]
      ELSE [ok |-> TRUE, message |-> "",
            hash |-> txs[Len(txs)].hash, index |-> found - 1]

\* variant: the most recent transaction of the list that has an output
\* listing the address
ResolvePreviousMostRecentMatching(txs, address) ==
  LET matching == {k \in 1..Len(txs) : FirstMatch(txs[k].outputs, address) # 0}
  IN  IF Len(txs) = 0
      THEN [ok |-> FALSE, message |-> MsgNoPrevious, hash |-> "", index |-> -1]
      ELSE IF matching = {}
      THEN [ok |-> FALSE, message |-> MsgNoOutput, hash |-> "", index |-> -1]
      ELSE LET k == CHOOSE k \in matching : \A j \in matching : k >= j
           IN  [ok |-> TRUE, message |-> "", hash |-> txs[k].hash,
                index |-> FirstMatch(txs[k].outputs, address) - 1]

ResolvePrevious(txs, address) ==
  IF Len(txs) = 0
  THEN [ok |-> FALSE, message |-> MsgNoPrevious, hash |-> "", index |-> -1]
  ELSE LET previousTransaction == txs[Len(txs)]
           found == FirstMatch(previousTransaction.outputs, address)
       IN  IF found = 0
           THEN [ok |-> FALSE, message |-> MsgNoOutput, hash |-> "", index |-> -1]
           ELSE [ok |-> TRUE, message |-> "",
                 hash |-> previousTransaction.hash, index |-> found - 1]

\* calculateFee, totalFeePerInput, totalFee and totalPay of BtcServiceV1.send
CalculateFee(feePerByte, transactionSize) == feePerByte * transactionSize

\* faulty variant: the fee is left out of the total
TotalPayNoFee(calculateFee, feePerByte, nIns, amount) == amount

TotalPay(calculateFee, feePerByte, nIns, amount) ==
  HumanAdd(convertFromSatoshi(calculateFee + feePerByte * nIns), amount)

\* faulty variant: a balance equal to the total is rejected too
InsufficientOrEqual(userBalance, totalPay) == ~HumanLess(totalPay, userBalance)

\* userBalance.data < totalPayFormat
Insufficient(userBalance, totalPay) == HumanLess(userBalance, totalPay)

\* BtcServiceV1.balance after its lookup answered
FeeResponses ==
  {[kind |-> "error", hourFee |-> 0]} \cup
  {[kind |-> "ok", hourFee |-> f] : f \in 1..MaxFee}

HistoryResponses ==
  {[kind |-> "error", txs |-> <<>>]} \cup
  {[kind |-> "ok", txs |-> h] : h \in Histories}

BalanceResponses ==
  {[kind |-> "error", balance |-> 0], [kind |-> "nodata", balance |-> 0]} \cup
  {[kind |-> "ok", balance |-> b] : b \in BalanceChoices}

PushResponses ==
  {[kind |-> "ok", text |-> h] : h \in {"h9"}} \cup
  {[kind |-> "rejected", text |-> t] : t \in RejectTexts} \cup
  {[kind |-> "noresponse", text |-> ""]}

(***************************************************************************)
(* The explorer and broadcast provider.  Unconstrained (shared = FALSE),   *)
(* every lookup may get any answer.  As one world that concurrent requests *)
(* share (shared = TRUE), it holds the history and the balance of the      *)
(* source address, the outpoints spent by the transactions it accepted     *)
(* (its mempool), and the accepted transactions its history does not show  *)
(* yet; it rejects a transaction that spends an outpoint of its mempool    *)
(* with the conflict text.                                                 *)
(***************************************************************************)
Unconstrained ==
  [shared |-> FALSE, txs |-> <<>>, balance |-> 0, spent |-> {}, pending |-> <<>>]

SharedHistories == {h \in Histories : Len(h) <= MaxSharedTxs}

SharedBalances == {0, SatoshiPerCoin}

SharedExplorers ==
  {[shared |-> TRUE, txs |-> h, balance |-> b, spent |-> {}, pending |-> <<>>] :
     h \in SharedHistories, b \in SharedBalances}

HistoryResponsesOf(e) ==
  IF e.shared
  THEN {[kind |-> "error", txs |-> <<>>], [kind |-> "ok", txs |-> e.txs]}
  ELSE HistoryResponses

BalanceResponsesOf(e) ==
  IF e.shared
  THEN {[kind |-> "error", balance |-> 0], [kind |-> "ok", balance |-> e.balance]}
  ELSE BalanceResponses

PushResponsesOf(e, tx) ==
  IF e.shared
  THEN {[kind |-> "noresponse", text |-> ""]} \cup
       (IF Range(tx.ins) \cap e.spent # {}
        THEN {[kind |-> "rejected", text |-> MsgConflictIn]}
        ELSE {[kind |-> "ok", text |-> "h9"],
              [kind |-> "rejected",
               text |-> "Invalid transaction. Error: bad-txns-inputs-missingorspent"]})
  ELSE PushResponses

\* the provider after it answered resp to the push of tx
Pushed(e, resp, tx) ==
  IF e.shared /\ resp.kind = "ok"
  THEN [e EXCEPT !.spent = @ \cup Range(tx.ins),
                 !.pending = Append(@, [hash |-> resp.text,
                                        outputs |-> [i \in DOMAIN tx.outs |->
                                          [addresses |-> {tx.outs[i].address}]]])]
  ELSE e

BalanceOutcome(resp) ==
  IF resp.kind = "error" THEN Failure(MsgNetwork)
  ELSE IF resp.kind = "nodata" THEN Failure(MsgNullBalance)
  ELSE Success(convertFromSatoshi(resp.balance))

\* faulty variant: the provider's text is always passed through
MapRejectionVerbatim(errorMessage) == errorMessage

\* faulty variant: any text that names the conflict is softened
MapRejectionLoose(errorMessage) ==
  IF errorMessage \in {MsgConflictIn, "txn-mempool-conflict"}
  THEN MsgConflictOut ELSE errorMessage

\* the catchError handler of the push-transaction pipeline
MapRejection(errorMessage) ==
  IF errorMessage = MsgConflictIn THEN MsgConflictOut ELSE errorMessage

\* the push-transaction pipeline: map on a response, catchError on an error
PushOutcome(resp, address, d) ==
  IF resp.kind = "ok"
  THEN Success([is_success_transaction |-> TRUE, transaction_id |-> resp.text,
                from |-> address, to |-> d.to_address, value |-> d.amount])
  ELSE IF resp.kind = "rejected" THEN Soft(MapRejection(resp.text))
  ELSE Escaped(MsgNoResponse)

(***************************************************************************)
(* Requests.                                                               *)
(***************************************************************************)
\* Request slots.  A slot is "off" (no client uses it), "idle" (a request may
\* arrive), at an await of its operation, or "done".
Reqs == {1, 2}

Goto(r, label, locals, newCalls) ==
  /\ pc' = [pc EXCEPT ![r] = label]
  /\ loc' = [loc EXCEPT ![r] = locals]
  /\ calls' = [calls EXCEPT ![r] = newCalls]
  /\ UNCHANGED <<op, dto, result, explorer>>

Finish(r, outcome, locals, newCalls) ==
  /\ pc' = [pc EXCEPT ![r] = "done"]
  /\ result' = [result EXCEPT ![r] = outcome]
  /\ loc' = [loc EXCEPT ![r] = locals]
  /\ calls' = [calls EXCEPT ![r] = newCalls]
  /\ UNCHANGED <<op, dto, explorer>>

Receive(r, operation, input, locals, label) ==
  /\ pc[r] = "idle"
  /\ op' = [op EXCEPT ![r] = operation]
  /\ dto' = [dto EXCEPT ![r] = input]
  /\ loc' = [loc EXCEPT ![r] = locals]
  /\ pc' = [pc EXCEPT ![r] = label]
  /\ UNCHANGED <<calls, result, explorer>>

Called(r, api) == Append(calls[r], api)

(***************************************************************************)
(* BtcServiceV1.send                                                       *)
(***************************************************************************)
BtcSendDtos ==
  [private_key : PrivateKeys, to_address : BtcAddresses,
   amount : BtcAmounts, fee : FeeOverrides]

\* the requests two concurrent sends of one key are drawn from
SharedKeyDtos ==
  [private_key : {"k1"}, to_address : BtcValidAddresses,
   amount : {Human(0, 2)},
   fee : {[present |-> TRUE, value |-> 1]}]

BtcSendDtosOf(e) == IF e.shared THEN SharedKeyDtos ELSE BtcSendDtos

BtcSendLocals ==
  [address |-> "", feePerByte |-> 0, data |-> <<>>, txsLength |-> -1,
   previousTransactionHash |-> "", previousOutputIndex |-> -1,
   builtTransaction |-> NoTx, transactionSize |-> 0, calculateFee |-> 0,
   hexTransaction |-> <<>>, totalPay |-> Human(0, 0),
   userBalance |-> Human(0, 0), balanceRead |-> FALSE,
   feeResponse |-> [kind |-> "none", hourFee |-> 0],
   pushResponse |-> [kind |-> "none", text |-> ""]]

BtcSendReceive(r) ==
  /\ pc[r] = "idle"
  /\ \E d \in BtcSendDtosOf(explorer) :
       Receive(r, "btc.send", d, BtcSendLocals, "btc.send.fee")

\* lines 174-176: derive the address, then sendBtcDto.fee || calculateAverageFee()
BtcSendFee(r) ==
  /\ pc[r] = "btc.send.fee"
  /\ IF ~ValidWIF(dto[r].private_key)
     THEN Finish(r, Failure(MsgBadWIF), loc[r], calls[r])
     ELSE LET address == getAddressFromPrivateKey(dto[r].private_key)
          IN  IF FeeGiven(dto[r].fee)
              THEN Goto(r, "btc.send.validate",
                        [loc[r] EXCEPT !.address = address,
                                       !.feePerByte = dto[r].fee.value],
                        calls[r])
              ELSE \E resp \in FeeResponses :
                     IF resp.kind = "error"
                     THEN Finish(r, Failure(MsgNetwork),
                                 [loc[r] EXCEPT !.address = address,
                                                !.feeResponse = resp],
                                 Called(r, "feesRecommended"))
                     ELSE Goto(r, "btc.send.validate",
                               [loc[r] EXCEPT !.address = address,
                                              !.feeResponse = resp,
                                              !.feePerByte = resp.hourFee],
                               Called(r, "feesRecommended"))

\* lines 178-183: validate(toAddress)
BtcSendValidate(r) ==
  /\ pc[r] = "btc.send.validate"
  /\ IF ~validate(dto[r].to_address)
     THEN Finish(r, Failure(MsgIncorrectRecipient), loc[r], calls[r])
     ELSE Goto(r, "btc.send.prev", loc[r], calls[r])

\* lines 53-56: the history lookup of getPreviousTransactionHashAndOutputIndex
BtcSendFetchHistory(r) ==
  /\ pc[r] = "btc.send.prev"
  /\ \E resp \in HistoryResponsesOf(explorer) :
       IF resp.kind = "error"
       THEN Finish(r, Failure(MsgNetwork), loc[r], Called(r, "addrsFull"))
       ELSE Goto(r, "btc.send.resolve",
                 [loc[r] EXCEPT !.data = resp.txs,
                                !.txsLength = Len(resp.txs)],
                 Called(r, "addrsFull"))

\* lines 58-96 and 186-197: the prior output is resolved from the fetched data
BtcSendResolve(r) ==
  /\ pc[r] = "btc.send.resolve"
  /\ LET prev == ResolvePrevious(loc[r].data, loc[r].address)
     IN  IF ~prev.ok
         THEN Finish(r, Failure(prev.message), [loc[r] EXCEPT !.data = <<>>],
                     calls[r])
         ELSE Goto(r, "btc.send.build",
                   [loc[r] EXCEPT !.data = <<>>,
                                  !.previousTransactionHash = prev.hash,
                                  !.previousOutputIndex = prev.index],
                   calls[r])

\* variant: a second output returns the change to the source address
BuildTransactionWithChange(hash, index, toAddress, amount, key) ==
  sign(addOutput(addOutput(addInput(NoTx, hash, index), toAddress,
                           convertToSatoshi(amount)),
                 getAddressFromPrivateKey(key), 0), 0, key)

\* lines 203-218: one input, one output, signed, built
BuildTransaction(hash, index, toAddress, amount, key) ==
  sign(addOutput(addInput(NoTx, hash, index), toAddress,
                 convertToSatoshi(amount)), 0, key)

\* lines 203-256: build, measure, settle the fee, serialize, total the payment
BtcSendBuild(r) ==
  /\ pc[r] = "btc.send.build"
  /\ \E size \in TxSizes :
       LET l == loc[r]
           built == BuildTransaction(l.previousTransactionHash,
                                     l.previousOutputIndex, dto[r].to_address,
                                     dto[r].amount, dto[r].private_key)
           fee == CalculateFee(l.feePerByte, size)
           measured == [l EXCEPT !.builtTransaction = built,
                                 !.transactionSize = size,
                                 !.calculateFee = fee]
       IN  IF l.previousOutputIndex >= Len(built.outs)
           THEN Finish(r, Failure(OutputMissing(l.previousOutputIndex)),
                       measured, calls[r])
           ELSE LET settled == SetOutValue(built, l.previousOutputIndex, fee)
                IN  Goto(r, "btc.send.balance",
                         [measured EXCEPT
                            !.builtTransaction = settled,
                            !.hexTransaction = toHex(settled),
                            !.totalPay = TotalPay(fee, l.feePerByte,
                                                  Len(settled.ins),
                                                  dto[r].amount)],
                         calls[r])

\* lines 259-267: this.balance({address}) and the affordability check
BtcSendCheckBalance(r) ==
  /\ pc[r] = "btc.send.balance"
  /\ \E resp \in BalanceResponsesOf(explorer) :
       LET userBalance == BalanceOutcome(resp)
       IN  IF userBalance.kind # "success"
           THEN Finish(r, Failure(userBalance.message), loc[r],
                       Called(r, "dashboardAddress"))
           ELSE LET l == [loc[r] EXCEPT !.userBalance = userBalance.data,
                                        !.balanceRead = TRUE]
                IN  IF Insufficient(userBalance.data, l.totalPay)
                    THEN Finish(r, Failure(MsgInsufficient), l,
                                Called(r, "dashboardAddress"))
                    ELSE Goto(r, "btc.send.push", l,
                              Called(r, "dashboardAddress"))

\* lines 269-272: send returns the pipeline; subscribed, it issues the POST
BtcSendPush(r) ==
  /\ pc[r] = "btc.send.push"
  /\ Goto(r, "btc.send.pushing", loc[r], Called(r, "pushTransaction"))

\* lines 273-301: the provider answers (or nothing does): map or catchError
BtcSendPushed(r) ==
  /\ pc[r] = "btc.send.pushing"
  /\ \E resp \in PushResponsesOf(explorer, loc[r].builtTransaction) :
       /\ pc' = [pc EXCEPT ![r] = "done"]
       /\ result' = [result EXCEPT
                       ![r] = PushOutcome(resp, loc[r].address, dto[r])]
       /\ loc' = [loc EXCEPT ![r].pushResponse = resp]
       /\ explorer' = Pushed(explorer, resp, loc[r].builtTransaction)
       /\ UNCHANGED <<op, dto, calls>>

\* the explorer's history comes to show a transaction the provider accepted
ExplorerReflects ==
  /\ explorer.shared
  /\ explorer.pending # <<>>
  /\ explorer' = [explorer EXCEPT !.txs = Append(@, Head(explorer.pending)),
                                  !.pending = Tail(@)]
  /\ UNCHANGED <<op, pc, dto, loc, calls, result>>

(***************************************************************************)
(* BtcServiceV1.balance                                                    *)
(***************************************************************************)
BtcBalanceReceive(r) ==
  /\ pc[r] = "idle"
  /\ \E a \in BtcAddresses :
       Receive(r, "btc.balance", [address |-> a], <<>>, "btc.balance")

\* lines 139-158: validate, then the address dashboard
BtcBalance(r) ==
  /\ pc[r] = "btc.balance"
  /\ IF ~validate(dto[r].address)
     THEN Finish(r, Failure(MsgIncorrectAddress), loc[r], calls[r])
     ELSE \E resp \in BalanceResponses :
            Finish(r, BalanceOutcome(resp), loc[r],
                   Called(r, "dashboardAddress"))

(***************************************************************************)
(* BtcServiceV1.transactions (with BtcServiceV1.transaction)               *)
(***************************************************************************)
HashChoices == {"h1", "h2"}

HashLists == UNION {[1..n -> HashChoices] : n \in 0..MaxHashes}

DashboardResponses ==
  {[kind |-> "error", transactions |-> <<>>],
   [kind |-> "nodata", transactions |-> <<>>]} \cup
  {[kind |-> "ok", transactions |-> hs] : hs \in HashLists}

\* outstanding: the transaction({hash}) lookups issued and not yet answered
BtcTransactionsLocals ==
  [transactions |-> <<>>, transactionList |-> <<>>, outstanding |-> 0]

\* faulty variant: the entry is put at the head of the list
unshift(transactionList, entry) == <<entry>> \o transactionList

\* transactionList.push({...transaction})
push(transactionList, entry) == Append(transactionList, entry)

BtcTransactionsReceive(r) ==
  /\ pc[r] = "idle"
  /\ \E a \in BtcAddresses :
       Receive(r, "btc.transactions", [address |-> a], BtcTransactionsLocals,
               "btc.transactions")

\* lines 351-371: validate, then the address dashboard
BtcTransactionsFetch(r) ==
  /\ pc[r] = "btc.transactions"
  /\ IF ~validate(dto[r].address)
     THEN Finish(r, Failure(MsgIncorrectAddress), loc[r], calls[r])
     ELSE \E resp \in DashboardResponses :
            IF resp.kind = "error"
            THEN Finish(r, Failure(MsgNetwork), loc[r],
                        Called(r, "dashboardAddress"))
            ELSE IF resp.kind = "nodata"
            THEN Finish(r, Failure(MsgAddressNotFound), loc[r],
                        Called(r, "dashboardAddress"))
            ELSE Goto(r, "btc.transactions.loop",
                      [loc[r] EXCEPT !.transactions = resp.transactions],
                      Called(r, "dashboardAddress"))

\* lines 373-385: the head of the for-of loop: with every hash looked up the
\* list is returned, else transaction({hash}) is called for the next hash and
\* awaited
BtcTransactionsLoop(r) ==
  /\ pc[r] = "btc.transactions.loop"
  /\ LET done == Len(loc[r].transactionList)
     IN  IF done = Len(loc[r].transactions)
         THEN Finish(r, Success(loc[r].transactionList), loc[r], calls[r])
         ELSE Goto(r, "btc.transactions.lookup",
                   [loc[r] EXCEPT !.outstanding = @ + 1],
                   Called(r, "dashboardTransaction"))

\* lines 322-346 and 374-379: the awaited lookup answers: its entry is pushed,
\* or its failure ends the whole call
BtcTransactionsLookup(r) ==
  /\ pc[r] = "btc.transactions.lookup"
  /\ LET done == Len(loc[r].transactionList)
         answered == [loc[r] EXCEPT !.outstanding = @ - 1]
     IN  \E ok \in BOOLEAN :
           IF ~ok
           THEN Finish(r, Failure(MsgNetwork), answered, calls[r])
           ELSE Goto(r, "btc.transactions.loop",
                     [answered EXCEPT !.transactionList =
                        push(@, [transaction_id |->
                                   loc[r].transactions[done + 1]])],
                     calls[r])

(***************************************************************************)
(* Web3Service: inputs and external responses.  A decimal number is        *)
(* mant * 10^exp.                                                          *)
(***************************************************************************)
Dec(m, e) == [mant |-> m, exp |-> e]

\* Web3.utils.isAddress
isAddress(address) == address \in {"0xA", "0xC"}

EvmAddresses == {"0xA", "bad"}
ContractAddresses == {"0xC", "bad"}
AssetTypes == {"coin", "token", "other"}
Web3Amounts == {Dec(15, -1), Dec(11, -1), Dec(2, 0)}
DecimalChoices == {6, 18}
GasPrices == {5}
Nonces == {0, 1}
RawBalances == {0, 7}
GasLimits ==
  {[present |-> FALSE, value |-> 0]} \cup
  {[present |-> TRUE, value |-> v] : v \in 0..MaxGas}
GasEstimates == 1..MaxGas
MsgReverted == "Transaction has been reverted by the EVM"
MsgNaN == "invalid number value"
MsgNoTransaction == "Cannot read properties of undefined"

\* faulty variant: the contract address is not validated
validateContractSkipped(contract) == TRUE

\* validateContract: new Web3().utils.isAddress(dto.contract)
validateContract(contract) == isAddress(contract)

\* Number(gas_limit) > 0, gas_limit > 0: false for an absent (undefined) limit
LimitGiven(gasLimit) == gasLimit.present /\ gasLimit.value > 0

\* Web3.utils.toWei(amount, 'ether') and fromWei(value, 'ether')
toWei(amount) == Dec(amount.mant, amount.exp + WeiDecimals)

fromWei(value) == Dec(value, -WeiDecimals)

\* balanceCall / Math.pow(10, decimal)
ScaleDown(value, decimal) == Dec(value, -decimal)

(***************************************************************************)
(* Number arithmetic.  A JavaScript number is an IEEE-754 double: a        *)
(* significand of at most SignificandBits bits times a power of two.       *)
(* Integers wider than the model checker's are sequences of limbs, least   *)
(* significant first, in radix Radix; <<>> is zero and the last limb of a  *)
(* non-zero value is non-zero.  A double is [mant |-> limbs, exp |-> e]    *)
(* with mant odd (or zero with exp 0), standing for mant * 2^exp.          *)
(***************************************************************************)
LimbBits == 15

Radix == 2 ^ LimbBits

SignificandBits == 53

RECURSIVE Limbs(_)
Limbs(n) == IF n = 0 THEN <<>> ELSE <<n % Radix>> \o Limbs(n \div Radix)

RECURSIVE MulCarry(_, _, _)
MulCarry(ls, k, carry) ==
    IF ls = <<>>
    THEN Limbs(carry)
    ELSE LET t == Head(ls) * k + carry
         IN  <<t % Radix>> \o MulCarry(Tail(ls), k, t \div Radix)

AddOne(ls) == MulCarry(ls, 1, 1)

Trimmed(ls) ==
    IF \A i \in 1..Len(ls) : ls[i] = 0
    THEN <<>>
    ELSE SubSeq(ls, 1, CHOOSE n \in 1..Len(ls) :
                           /\ ls[n] # 0
                           /\ \A i \in (n + 1)..Len(ls) : ls[i] = 0)

RECURSIVE DivRemFrom(_, _, _)
DivRemFrom(ls, k, i) ==
    IF i > Len(ls)
    THEN [q |-> <<>>, r |-> 0]
    ELSE LET high == DivRemFrom(ls, k, i + 1)
             t == high.r * Radix + ls[i]
         IN  [q |-> <<t \div k>> \o high.q, r |-> t % k]

DivRem(ls, k) ==
    LET all == DivRemFrom(ls, k, 1)
    IN  [q |-> Trimmed(all.q), r |-> all.r]

IsOdd(ls) == ls # <<>> /\ Head(ls) % 2 = 1

BitsOf(limb) == CHOOSE b \in 1..LimbBits : 2 ^ (b - 1) <= limb /\ limb < 2 ^ b

BitLength(ls) ==
    IF ls = <<>> THEN 0 ELSE LimbBits * (Len(ls) - 1) + BitsOf(ls[Len(ls)])

ShiftLeftLimbs(ls, count) ==
    IF ls = <<>> THEN <<>> ELSE [i \in 1..count |-> 0] \o ls

ShiftRight(ls, bits) ==
    LET whole == bits \div LimbBits
        dropped == IF whole < Len(ls) THEN whole ELSE Len(ls)
        kept == DivRem(SubSeq(ls, whole + 1, Len(ls)), 2 ^ (bits % LimbBits))
    IN  [q |-> kept.q,
         exact |-> kept.r = 0 /\ \A i \in 1..dropped : ls[i] = 0]

TrailingZeroBits(ls) ==
    LET first == CHOOSE i \in 1..Len(ls) :
                     ls[i] # 0 /\ \A j \in 1..(i - 1) : ls[j] = 0
    IN  LimbBits * (first - 1)
          + (CHOOSE b \in 0..(LimbBits - 1) : ls[first] % (2 ^ (b + 1)) = 2 ^ b)

Canonical(n, e) ==
    IF n = <<>>
    THEN [mant |-> <<>>, exp |-> 0]
    ELSE LET zeros == TrailingZeroBits(n)
         IN  [mant |-> ShiftRight(n, zeros).q, exp |-> e + zeros]

\* n * 2^e (plus a non-zero remainder below the last bit of n when inexact
\* is TRUE) rounded to the nearest double, ties to even.
RoundBits(n, e, inexact) ==
    IF BitLength(n) <= SignificandBits
    THEN Canonical(n, e)
    ELSE LET excess == BitLength(n) - SignificandBits
             above == ShiftRight(n, excess - 1)
             guard == IsOdd(above.q)
             q == DivRem(above.q, 2).q
             sticky == inexact \/ ~above.exact
             up == guard /\ (sticky \/ IsOdd(q))
         IN  Canonical(IF up THEN AddOne(q) ELSE q, e + excess)

RECURSIVE TimesPow10(_, _)
TimesPow10(ls, n) ==
    IF n = 0
    THEN ls
    ELSE LET step == IF n < 4 THEN n ELSE 4
         IN  MulCarry(TimesPow10(ls, n - step), 10 ^ step, 0)

RECURSIVE DivPow10(_, _)
DivPow10(ls, n) ==
    IF n = 0
    THEN [q |-> ls, exact |-> TRUE]
    ELSE LET step == IF n < 4 THEN n ELSE 4
             low == DivRem(ls, 10 ^ step)
             rest == DivPow10(low.q, n - step)
         IN  [q |-> rest.q, exact |-> low.r = 0 /\ rest.exact]

\* The double nearest to the decimal dec.mant * 10^dec.exp: what the JSON
\* parser makes of the request's amount.
ToDouble(dec) ==
    IF dec.exp >= 0
    THEN RoundBits(TimesPow10(Limbs(dec.mant), dec.exp), 0, FALSE)
    ELSE LET places == 0 - dec.exp
             room == 4 + places
             scaled == DivPow10(ShiftLeftLimbs(Limbs(dec.mant), room), places)
         IN  RoundBits(scaled.q, 0 - LimbBits * room, ~scaled.exact)

\* sendWeb3Dto.amount * Math.pow(10, decimal): 10^decimal is exact in a
\* double up to 10^22, and the product is rounded once.
TimesPowerOfTen(x, decimal) ==
    RoundBits(TimesPow10(x.mant, decimal), x.exp, FALSE)

\* Decimal digits, least significant first.
RECURSIVE Chunks(_)
Chunks(ls) ==
    IF ls = <<>>
    THEN <<>>
    ELSE LET low == DivRem(ls, 10000) IN <<low.r>> \o Chunks(low.q)

DigitsOfChunk(c) == CHOOSE n \in 1..4 : 10 ^ (n - 1) <= c /\ c < 10 ^ n

ToDecimal(ls) ==
    LET cs == Chunks(ls)
    IN  IF cs = <<>>
        THEN <<>>
        ELSE [i \in 1..(4 * (Len(cs) - 1) + DigitsOfChunk(cs[Len(cs)])) |->
                 (cs[(i - 1) \div 4 + 1] \div 10 ^ ((i - 1) % 4)) % 10]

RECURSIVE FromChunks(_)
FromChunks(cs) ==
    IF cs = <<>>
    THEN <<>>
    ELSE MulCarry(FromChunks(Tail(cs)), 10000, Head(cs))

DigitAt(ds, i) == IF i <= Len(ds) THEN ds[i] ELSE 0

FromDecimal(ds) ==
    FromChunks([j \in 1..((Len(ds) + 3) \div 4) |->
                   DigitAt(ds, 4 * j - 3) + 10 * DigitAt(ds, 4 * j - 2)
                     + 100 * DigitAt(ds, 4 * j - 1) + 1000 * DigitAt(ds, 4 * j)])

RECURSIVE DigitString(_)
DigitString(ds) ==
    IF ds = <<>> THEN "" ELSE DigitString(Tail(ds)) \o ToString(Head(ds))

IntegerString(ds) == IF ds = <<>> THEN "0" ELSE DigitString(ds)

\* The integer x.mant * 2^x.exp of a double with x.exp >= 0.
RECURSIVE TimesPow2(_, _)
TimesPow2(ls, n) ==
    IF n = 0
    THEN ls
    ELSE LET step == IF n < LimbBits THEN n ELSE LimbBits
         IN  MulCarry(TimesPow2(ls, n - step), 2 ^ step, 0)

IntegerValue(x) == TimesPow2(x.mant, x.exp)

Less(a, b) ==
    IF Len(a) # Len(b)
    THEN Len(a) < Len(b)
    ELSE \E i \in 1..Len(a) :
             /\ a[i] < b[i]
             /\ \A j \in (i + 1)..Len(a) : a[j] = b[j]

\* The decimal v cut to its n leading digits, the rest zeros, rounded down
\* (up = FALSE) or away from zero (up = TRUE).
CutDigits(v, n, up) ==
    LET low == Len(v) - n
        head == FromDecimal(SubSeq(v, low + 1, Len(v)))
    IN  ToDecimal(TimesPow10(IF up THEN AddOne(head) ELSE head, low))

ReadsBack(ds, x) == RoundBits(FromDecimal(ds), 0, FALSE) = x

\* The fewest leading digits of v that still read back as the double x.
ShortestDigits(v, x) ==
    LET Candidates(n) == {CutDigits(v, n, FALSE), CutDigits(v, n, TRUE)}
        Enough(n) == \E c \in Candidates(n) : ReadsBack(c, x)
        n == CHOOSE k \in 1..Len(v) :
                 /\ k = Len(v) \/ Enough(k)
                 /\ \A j \in 1..(k - 1) : ~Enough(j)
    IN  IF n = Len(v)
        THEN v
        ELSE LET below == CutDigits(v, n, FALSE)
                 above == CutDigits(v, n, TRUE)
                 rest == FromDecimal(SubSeq(v, 1, Len(v) - n))
                 nearer == IF Less(MulCarry(rest, 2, 0),
                                   TimesPow10(<<1>>, Len(v) - n))
                           THEN <<below, above>>
                           ELSE <<above, below>>
             IN  IF ReadsBack(nearer[1], x) THEN nearer[1] ELSE nearer[2]

\* Up to three fraction digits, the last one rounded half away from zero,
\* trailing zeros dropped: the defaults of Intl.NumberFormat.
FractionString(thousandths) ==
    IF thousandths = 0
    THEN ""
    ELSE LET d1 == thousandths \div 100
             d2 == (thousandths \div 10) % 10
             d3 == thousandths % 10
         IN  "." \o ToString(d1)
                 \o (IF d2 = 0 /\ d3 = 0 THEN "" ELSE ToString(d2))
                 \o (IF d3 = 0 THEN "" ELSE ToString(d3))

\* Number.prototype.toLocaleString('fullwide', {useGrouping: false}) of a
\* non-negative double.  An integer value is written with all of its
\* digits when shortest is FALSE (the digits ECMA-402 asks for), and as the
\* shortest digits that read back as the same double, padded with zeros,
\* when shortest is TRUE (the digits ICU produces).
toLocaleString(x, shortest) ==
    IF x.exp >= 0
    THEN LET v == ToDecimal(IntegerValue(x))
         IN  IntegerString(IF shortest /\ v # <<>>
                           THEN ShortestDigits(v, x)
                           ELSE v)
    ELSE LET scaled == MulCarry(x.mant, 1000, 0)
             doubled == ShiftRight(scaled, (0 - x.exp) - 1).q
             rounded == DivRem(AddOne(doubled), 2).q
             parts == DivRem(rounded, 1000)
         IN  IntegerString(ToDecimal(parts.q)) \o FractionString(parts.r)

\* (sendWeb3Dto.amount * Math.pow(10, decimal)).toLocaleString('fullwide',
\* {useGrouping: false}): the text handed to transfer(to_address, amount)
AtomicAmount(amount, decimal, shortest) ==
    toLocaleString(TimesPowerOfTen(ToDouble(amount), decimal), shortest)

\* faulty variant: the half is rounded up
PaddedGasCeil(estimateGas) == (estimateGas + 1) \div 2 + estimateGas

\* parseInt(String(estimateGas / 2)) + estimateGas
PaddedGas(estimateGas) == estimateGas \div 2 + estimateGas

\* sendWeb3Dto.gas_limit > 0 ? sendWeb3Dto.gas_limit : 63000
CoinGas(gasLimit) == IF LimitGiven(gasLimit) THEN gasLimit.value ELSE DefaultCoinGas

getAddressByPrivateKey(privateKey) == "0xS"

NoTransaction ==
  [kind |-> "undefined", from |-> "", to |-> "", gas |-> 0, nonce |-> 0,
   value |-> Dec(0, 0), chainId |-> "",
   data |-> [method |-> "", to |-> "", amount |-> ""]]

CoinTransaction(address, nonce, gas, to, value, chainId) ==
  [NoTransaction EXCEPT !.kind = "coin", !.from = address, !.nonce = nonce,
                        !.gas = gas, !.to = to, !.value = value,
                        !.chainId = chainId]

TokenTransaction(address, contract, gas, to, amount) ==
  [NoTransaction EXCEPT !.kind = "token", !.from = address, !.to = contract,
                        !.gas = gas,
                        !.data = [method |-> "transfer", to |-> to,
                                  amount |-> amount]]

(***************************************************************************)
(* Web3Service.balance                                                     *)
(***************************************************************************)
Web3BalanceDtos ==
  [address : EvmAddresses, type : AssetTypes, contract : ContractAddresses]

Web3BalanceReceive(r) ==
  /\ pc[r] = "idle"
  /\ \E d \in Web3BalanceDtos :
       Receive(r, "web3.balance", d, [decimal |-> 0], "web3.balance")

\* lines 70-116: validations, getBalance (coin) or decimals (token)
Web3Balance(r) ==
  /\ pc[r] = "web3.balance"
  /\ IF ~isAddress(dto[r].address)
     THEN Finish(r, Failure(MsgIncorrectAddress), loc[r], calls[r])
     ELSE IF dto[r].type = "coin"
     THEN \E ok \in BOOLEAN, b \in RawBalances :
            Finish(r, IF ok THEN Success(fromWei(b)) ELSE Failure(MsgNetwork),
                   loc[r], Called(r, "getBalance"))
     ELSE IF dto[r].type = "token"
     THEN IF ~validateContract(dto[r].contract)
          THEN Finish(r, Failure(MsgIncorrectContract), loc[r], calls[r])
          ELSE \E ok \in BOOLEAN, d \in DecimalChoices :
                 IF ok
                 THEN Goto(r, "web3.balance.balanceOf",
                           [loc[r] EXCEPT !.decimal = d], Called(r, "decimals"))
                 ELSE Finish(r, Failure(MsgNetwork), loc[r],
                             Called(r, "decimals"))
     ELSE Finish(r, Success(Dec(0, 0)), loc[r], calls[r])

\* lines 95-101: balanceOf, divided by 10^decimal
Web3BalanceCall(r) ==
  /\ pc[r] = "web3.balance.balanceOf"
  /\ \E ok \in BOOLEAN, b \in RawBalances :
       Finish(r, IF ok THEN Success(ScaleDown(b, loc[r].decimal))
                 ELSE Failure(MsgNetwork),
              loc[r], Called(r, "balanceOf"))

(***************************************************************************)
(* Web3Service.send (with calculateEstimateGasFees)                        *)
(***************************************************************************)
Web3SendDtos ==
  [private_key : {"k1"}, to_address : EvmAddresses, type : AssetTypes,
   amount : Web3Amounts, contract : ContractAddresses, gas_limit : GasLimits]

Pending == [state |-> "pending", value |-> ""]

Web3SendLocals ==
  [address |-> "", decimal |-> 0, amount |-> Dec(0, 0), gasPrice |-> 0,
   estimated |-> FALSE, estimateGas |-> 0, gasFees |-> 0,
   estimateCall |-> [method |-> "", to |-> "", amount |-> ""],
   transaction |-> NoTransaction, submitted |-> FALSE,
   promise |-> Pending, events |-> <<>>]

NetworkEvents ==
  {[kind |-> "receipt", value |-> "receipt1"],
   [kind |-> "error", value |-> MsgReverted]}

\* faulty variant: every event settles the promise again
SettleLast(promise, ev) ==
  IF ev.kind = "receipt"
  THEN [state |-> "fulfilled", value |-> ev.value]
  ELSE [state |-> "rejected", value |-> ev.value]

\* faulty variant: no handler for the error event
SettleOnReceiptOnly(promise, ev) ==
  IF promise.state # "pending" \/ ev.kind # "receipt" THEN promise
  ELSE [state |-> "fulfilled", value |-> ev.value]

\* new Promise((resolve, reject) => ....on('receipt', resolve).on('error', reject)):
\* a promise settles once
Settle(promise, ev) ==
  IF promise.state # "pending" THEN promise
  ELSE IF ev.kind = "receipt"
  THEN [state |-> "fulfilled", value |-> ev.value]
  ELSE [state |-> "rejected", value |-> ev.value]

Web3SendReceive(r) ==
  /\ pc[r] = "idle"
  /\ \E d \in Web3SendDtos :
       Receive(r, "web3.send", d, Web3SendLocals, "web3.send")

\* lines 132-167: validations, then the nonce (coin) or decimals (token) lookup
Web3Send(r) ==
  /\ pc[r] = "web3.send"
  /\ LET l == [loc[r] EXCEPT
                 !.address = getAddressByPrivateKey(dto[r].private_key)]
     IN  IF ~isAddress(dto[r].to_address)
         THEN Finish(r, Failure(MsgIncorrectRecipient), l, calls[r])
         ELSE IF dto[r].type = "coin"
         THEN \E ok \in BOOLEAN, nonce \in Nonces :
                IF ok
                THEN Goto(r, "web3.send.sign",
                          [l EXCEPT !.amount = toWei(dto[r].amount),
                                    !.transaction =
                             CoinTransaction(l.address, nonce,
                                             CoinGas(dto[r].gas_limit),
                                             dto[r].to_address,
                                             toWei(dto[r].amount), "chain")],
                          Called(r, "getTransactionCount"))
                ELSE Finish(r, Failure(MsgNetwork), l,
                            Called(r, "getTransactionCount"))
         ELSE IF dto[r].type = "token"
         THEN IF ~validateContract(dto[r].contract)
              THEN Finish(r, Failure(MsgIncorrectContract), l, calls[r])
              ELSE \E ok \in BOOLEAN, d \in DecimalChoices, shortest \in BOOLEAN :
                     IF ok
                     THEN Goto(r, "web3.send.gasPrice",
                               [l EXCEPT !.decimal = d,
                                         !.amount =
                                    AtomicAmount(dto[r].amount, d, shortest)],
                               Called(r, "decimals"))
                     ELSE Finish(r, Failure(MsgNetwork), l,
                                 Called(r, "decimals"))
         ELSE Goto(r, "web3.send.sign", l, calls[r])

\* the gas limit calculateEstimateGasFees returns
UsedGasLimit(gasLimit, estimateGas) ==
  IF LimitGiven(gasLimit) THEN gasLimit.value ELSE PaddedGas(estimateGas)

\* lines 19-26 and 34-42: getGasPrice; with a limit > 0 no estimate is made
Web3SendGasPrice(r) ==
  /\ pc[r] = "web3.send.gasPrice"
  /\ \E ok \in BOOLEAN, gasPrice \in GasPrices :
       IF ~ok
       THEN Finish(r, Failure(MsgNetwork), loc[r], Called(r, "getGasPrice"))
       ELSE LET l == [loc[r] EXCEPT !.gasPrice = gasPrice,
                        !.gasFees = dto[r].gas_limit.value * gasPrice]
            IN  IF LimitGiven(dto[r].gas_limit)
                THEN Goto(r, "web3.send.sign",
                          [l EXCEPT !.transaction =
                             TokenTransaction(l.address, dto[r].contract,
                               UsedGasLimit(dto[r].gas_limit, l.estimateGas),
                               dto[r].to_address, l.amount)],
                          Called(r, "getGasPrice"))
                ELSE Goto(r, "web3.send.estimate", l, Called(r, "getGasPrice"))

\* lines 28-42: the dry run of the transfer, padded by one half.  gasFees is
\* NaN when gas_limit is undefined; whether fromWei then throws is the
\* library's (web3-utils rejects a string that is no integer): both are kept.
Web3SendEstimate(r) ==
  /\ pc[r] = "web3.send.estimate"
  /\ \E ok \in BOOLEAN, estimateGas \in GasEstimates, nanThrows \in BOOLEAN :
       IF ~ok
       THEN Finish(r, Failure(MsgReverted), loc[r], Called(r, "estimateGas"))
       ELSE LET l == [loc[r] EXCEPT
                        !.estimated = TRUE,
                        !.estimateGas = estimateGas,
                        !.estimateCall = [method |-> "transfer",
                                          to |-> dto[r].to_address,
                                          amount |-> loc[r].amount]]
            IN  IF ~dto[r].gas_limit.present /\ nanThrows
                THEN Finish(r, Failure(MsgNaN), l, Called(r, "estimateGas"))
                ELSE Goto(r, "web3.send.sign",
                          [l EXCEPT !.transaction =
                             TokenTransaction(l.address, dto[r].contract,
                               UsedGasLimit(dto[r].gas_limit, estimateGas),
                               dto[r].to_address, l.amount)],
                          Called(r, "estimateGas"))

\* lines 201-210: signTransaction, then sendSignedTransaction is submitted
Web3SendSign(r) ==
  /\ pc[r] = "web3.send.sign"
  /\ IF loc[r].transaction.kind = "undefined"
     THEN Finish(r, Failure(MsgNoTransaction), loc[r],
                 Called(r, "signTransaction"))
     ELSE \E ok \in BOOLEAN :
            IF ~ok
            THEN Finish(r, Failure(MsgNetwork), loc[r],
                        Called(r, "signTransaction"))
            ELSE Goto(r, "web3.send.wait", [loc[r] EXCEPT !.submitted = TRUE],
                      calls[r] \o <<"signTransaction", "sendSignedTransaction">>)

\* the network emits a receipt or an error event; the handlers stay registered
Web3SendEvent(r) ==
  /\ op[r] = "web3.send"
  /\ loc[r].submitted
  /\ Len(loc[r].events) < MaxEvents
  /\ \E ev \in NetworkEvents :
       /\ loc' = [loc EXCEPT ![r].events = Append(@, ev),
                             ![r].promise = Settle(@, ev)]
       /\ UNCHANGED <<op, pc, dto, calls, result, explorer>>

\* lines 212-231: the await on the promise resumes
Web3SendSettled(r) ==
  /\ pc[r] = "web3.send.wait"
  /\ loc[r].promise.state # "pending"
  /\ Finish(r, IF loc[r].promise.state = "fulfilled"
               THEN Success(loc[r].promise.value)
               ELSE Failure(loc[r].promise.value),
            loc[r], calls[r])

(***************************************************************************)
(* Specification: one request at a time.                                   *)
(***************************************************************************)
InitSlots(active) ==
  /\ op = [r \in Reqs |-> "none"]
  /\ pc = [r \in Reqs |-> IF r \in active THEN "idle" ELSE "off"]
  /\ dto = [r \in Reqs |-> <<>>]
  /\ loc = [r \in Reqs |-> <<>>]
  /\ calls = [r \in Reqs |-> <<>>]
  /\ result = [r \in Reqs |-> NoResult]

Init == InitSlots({1}) /\ explorer = Unconstrained

Next ==
  \/ \E r \in Reqs : BtcSendReceive(r)
  \/ \E r \in Reqs : BtcSendFee(r)
  \/ \E r \in Reqs : BtcSendValidate(r)
  \/ \E r \in Reqs : BtcSendFetchHistory(r)
  \/ \E r \in Reqs : BtcSendResolve(r)
  \/ \E r \in Reqs : BtcSendBuild(r)
  \/ \E r \in Reqs : BtcSendCheckBalance(r)
  \/ \E r \in Reqs : BtcSendPush(r)
  \/ \E r \in Reqs : BtcSendPushed(r)
  \/ \E r \in Reqs : BtcBalanceReceive(r)
  \/ \E r \in Reqs : BtcBalance(r)
  \/ \E r \in Reqs : BtcTransactionsReceive(r)
  \/ \E r \in Reqs : BtcTransactionsFetch(r)
  \/ \E r \in Reqs : BtcTransactionsLoop(r)
  \/ \E r \in Reqs : BtcTransactionsLookup(r)
  \/ \E r \in Reqs : Web3BalanceReceive(r)
  \/ \E r \in Reqs : Web3Balance(r)
  \/ \E r \in Reqs : Web3BalanceCall(r)
  \/ \E r \in Reqs : Web3SendReceive(r)
  \/ \E r \in Reqs : Web3Send(r)
  \/ \E r \in Reqs : Web3SendGasPrice(r)
  \/ \E r \in Reqs : Web3SendEstimate(r)
  \/ \E r \in Reqs : Web3SendSign(r)
  \/ \E r \in Reqs : Web3SendEvent(r)
  \/ \E r \in Reqs : Web3SendSettled(r)

Spec == Init /\ [][Next]_vars

(***************************************************************************)
(* Specification: two concurrent sends of one key against one explorer.    *)
(***************************************************************************)
InitShared == InitSlots({1, 2}) /\ explorer \in SharedExplorers

NextShared ==
  \/ \E r \in Reqs : BtcSendReceive(r)
  \/ \E r \in Reqs : BtcSendFee(r)
  \/ \E r \in Reqs : BtcSendValidate(r)
  \/ \E r \in Reqs : BtcSendFetchHistory(r)
  \/ \E r \in Reqs : BtcSendResolve(r)
  \/ \E r \in Reqs : BtcSendBuild(r)
  \/ \E r \in Reqs : BtcSendCheckBalance(r)
  \/ \E r \in Reqs : BtcSendPush(r)
  \/ \E r \in Reqs : BtcSendPushed(r)
  \/ ExplorerReflects

SharedSpec == InitShared /\ [][NextShared]_vars

\* The continuation of an await runs once its promise has settled (the event
\* loop runs every queued job).  Nothing obliges the network to emit an event.
FairSpec == Spec /\ WF_vars(\E r \in Reqs : Web3SendSettled(r))

(***************************************************************************)
(* Properties.                                                             *)
(***************************************************************************)
Issued(r, api) == api \in Range(calls[r])

Failed(r, m) ==
  pc[r] = "done" /\ result[r].kind = "failure" /\ result[r].message = m

\* C1: UTXO send: whenever requestedAmount + feePerByte x byteSize (in human
\* units) is greater than the balance read at send time, send fails with
\* "Insufficient coin balance" and no push-transaction request is issued.
C1_InsufficientBalanceNoBroadcast ==
  \A r \in Reqs :
    (/\ op[r] = "btc.send"
     /\ loc[r].balanceRead
     /\ HumanLess(loc[r].userBalance,
                  HumanAdd(dto[r].amount,
                           convertFromSatoshi(loc[r].feePerByte *
                                              loc[r].transactionSize))))
    => Failed(r, MsgInsufficient) /\ ~Issued(r, "pushTransaction")

\* C1 witness: the balance covers the amount but not amount + fee; rejected.
C1_Witness ==
  \E r \in Reqs :
    /\ op[r] = "btc.send"
    /\ loc[r].balanceRead
    /\ ~HumanLess(loc[r].userBalance, dto[r].amount)
    /\ HumanLess(loc[r].userBalance,
                 HumanAdd(dto[r].amount,
                          convertFromSatoshi(loc[r].feePerByte *
                                             loc[r].transactionSize)))
    /\ Failed(r, MsgInsufficient)

\* C2: for every operation that takes an address, a malformed address is
\* rejected before any network call of the request: a request that ended with
\* the address-validation failure has issued no external call.
C2_RejectedBeforeAnyNetworkCall ==
  \A r \in Reqs :
    (Failed(r, MsgIncorrectRecipient) \/ Failed(r, MsgIncorrectAddress))
    => calls[r] = <<>>

\* C3: UTXO send fee settlement: in every send that reaches broadcast the
\* output at the consumed prior output's index carries exactly
\* feePerByte x byteSize in place of the requested amount, every other part
\* of the built transaction is as built, the index is 0 and that output is
\* the single output created for the destination; the serialization that is
\* broadcast is that of the settled transaction.
C3_FeeOverwritesOutputAtInputIndex ==
  \A r \in Reqs :
    (op[r] = "btc.send" /\ pc[r] \in {"btc.send.push", "btc.send.pushing", "done"}
       /\ (pc[r] = "done" => Issued(r, "pushTransaction")))
    => LET l == loc[r]
           tx == l.builtTransaction
           i == l.previousOutputIndex
       IN  /\ i = 0
           /\ Len(tx.outs) = 1
           /\ tx.outs[i + 1] = [address |-> dto[r].to_address,
                                value |-> l.feePerByte * l.transactionSize]
           /\ tx.ins = <<[hash |-> l.previousTransactionHash, index |-> i]>>
           /\ tx.sigs = <<[vin |-> 0, key |-> dto[r].private_key,
                           outs |-> <<[address |-> dto[r].to_address,
                                       value |-> convertToSatoshi(dto[r].amount)]>>]>>
           /\ l.hexTransaction = <<"hex", tx.ins, tx.outs, tx.sigs>>

\* C3 witness: a broadcast whose output value is the fee, not the amount.
C3_Witness ==
  \E r \in Reqs :
    /\ op[r] = "btc.send"
    /\ Issued(r, "pushTransaction")
    /\ loc[r].builtTransaction.outs[1].value = loc[r].calculateFee
    /\ loc[r].calculateFee # convertToSatoshi(dto[r].amount)
    /\ loc[r].calculateFee = 4

\* C4: UTXO send: when the fetched history of the source address is empty,
\* send fails with "No previous transactions found", builds no transaction
\* and performs no broadcast.
C4_EmptyHistoryFails ==
  /\ [][\A r \in Reqs :
          (pc[r] = "btc.send.resolve" /\ loc[r].data = <<>> /\ pc'[r] # pc[r])
          => /\ pc'[r] = "done"
             /\ result'[r].kind = "failure"
             /\ result'[r].message = MsgNoPrevious]_vars
  /\ [](\A r \in Reqs :
          (op[r] = "btc.send" /\ Failed(r, MsgNoPrevious))
          => /\ ~Issued(r, "pushTransaction")
             /\ loc[r].builtTransaction = NoTx
             /\ loc[r].hexTransaction = <<>>)

\* C4 witness: a send that failed on an empty history after its lookup.
C4_Witness ==
  \E r \in Reqs :
    /\ op[r] = "btc.send"
    /\ Failed(r, MsgNoPrevious)
    /\ calls[r][Len(calls[r])] = "addrsFull"

\* C5: UTXO send: when no output of the transaction selected from the history
\* (the last of the list) lists the source address, send fails with
\* "Previous output not found" and performs no broadcast; otherwise the
\* resolved prior output is (that transaction's hash, the index of its first
\* output that lists the source address).
C5_PriorOutputBelongsToSource ==
  /\ [][\A r \in Reqs :
          (pc[r] = "btc.send.resolve" /\ loc[r].data # <<>> /\ pc'[r] # pc[r])
          => LET selected == loc[r].data[Len(loc[r].data)]
                 listing == {i \in 1..Len(selected.outputs) :
                               loc[r].address \in selected.outputs[i].addresses}
             IN  IF listing = {}
                 THEN /\ pc'[r] = "done"
                      /\ result'[r].kind = "failure"
                      /\ result'[r].message = MsgNoOutput
                 ELSE /\ pc'[r] = "btc.send.build"
                      /\ loc'[r].previousTransactionHash = selected.hash
                      /\ loc'[r].previousOutputIndex + 1 \in listing
                      /\ \A j \in listing : loc'[r].previousOutputIndex + 1 <= j]_vars
  /\ [](\A r \in Reqs :
          (op[r] = "btc.send" /\ Failed(r, MsgNoOutput))
          => ~Issued(r, "pushTransaction"))

\* C5 witness: the prior output resolved is the second output of the second
\* transaction of the history (its first output lists another address).
C5_Witness ==
  \E r \in Reqs :
    /\ pc[r] = "btc.send.build"
    /\ loc[r].previousTransactionHash = "h2"
    /\ loc[r].previousOutputIndex = 1

\* C6: UTXO send broadcast rejection mapping: a provider rejection whose text
\* is exactly "Invalid transaction. Error: txn-mempool-conflict" yields the
\* soft outcome with the incomplete-transaction message; every other provider
\* rejection yields the soft outcome with the provider's text unchanged.
C6_RejectionMapping ==
  \A r \in Reqs :
    (op[r] = "btc.send" /\ pc[r] = "done"
       /\ loc[r].pushResponse.kind = "rejected")
    => /\ result[r].kind = "soft"
       /\ result[r].message =
            IF loc[r].pushResponse.text =
                 "Invalid transaction. Error: txn-mempool-conflict"
            THEN "You have an incomplete transaction. Wait until the previous transaction is completed"
            ELSE loc[r].pushResponse.text

\* C6 witness: a rejection that names the conflict without being the exact
\* text is passed through.
C6_Witness ==
  \E r \in Reqs :
    /\ op[r] = "btc.send" /\ pc[r] = "done"
    /\ loc[r].pushResponse = [kind |-> "rejected", text |-> "txn-mempool-conflict"]
    /\ result[r].kind = "soft"
    /\ result[r].message = "txn-mempool-conflict"

\* C7: every request to either engine ends in a normalized success payload or
\* a normalized failure payload (the soft rejection payload included): no
\* failure of any step, broadcast-time failures included, escapes the
\* operation's error normalization.
C7_EveryOutcomeNormalized ==
  \A r \in Reqs :
    pc[r] = "done" => result[r].kind \in {"success", "failure", "soft"}

\* C8: account-model send outcome: after the signed payload is submitted the
\* result is decided by the first network event only (receipt: success with
\* the receipt; error: failure with the error's message), and a later event
\* never changes it.
C8_FirstEventDecides ==
  \A r \in Reqs :
    (op[r] = "web3.send" /\ loc[r].submitted)
    => /\ loc[r].events = <<>> =>
            pc[r] = "web3.send.wait" /\ loc[r].promise.state = "pending"
       /\ loc[r].events # <<>> =>
            LET first == loc[r].events[1]
            IN  /\ loc[r].promise.value = first.value
                /\ loc[r].promise.state =
                     IF first.kind = "receipt" THEN "fulfilled" ELSE "rejected"
                /\ pc[r] = "done" =>
                     IF first.kind = "receipt"
                     THEN result[r].kind = "success" /\ result[r].data = first.value
                     ELSE result[r].kind = "failure" /\ result[r].message = first.value

\* C8 witness: a receipt, then an error event after the call has returned its
\* success.
C8_Witness ==
  \E r \in Reqs :
    /\ op[r] = "web3.send" /\ pc[r] = "done"
    /\ Len(loc[r].events) = 2
    /\ loc[r].events[1].kind = "receipt"
    /\ loc[r].events[2].kind = "error"
    /\ result[r].kind = "success"

ContractReads == {"decimals", "balanceOf", "estimateGas"}

TokenWithMalformedContract(r) ==
  /\ op[r] \in {"web3.send", "web3.balance"}
  /\ dto[r].type = "token"
  /\ ~isAddress(dto[r].contract)

AccountAddress(r) ==
  IF op[r] = "web3.send" THEN dto[r].to_address ELSE dto[r].address

\* C9 as stated: account-model send and balance with assetKind token and a
\* malformed contract address fail with "Incorrect contract address" before
\* any contract read, and send neither signs nor submits.
C9_MalformedContractRejected ==
  \A r \in Reqs :
    TokenWithMalformedContract(r)
    => /\ Range(calls[r]) \cap ContractReads = {}
       /\ ~Issued(r, "signTransaction")
       /\ ~Issued(r, "sendSignedTransaction")
       /\ pc[r] = "done" => Failed(r, MsgIncorrectContract)

\* C9 amended: with a well-formed recipient (send) or holder (balance)
\* address, token operations with a malformed contract address fail with
\* "Incorrect contract address"; with a malformed one they fail with the
\* address error of the operation; in both cases no contract read is issued
\* and send neither signs nor submits.
C9_MalformedContractRejectedAfterAddress ==
  \A r \in Reqs :
    TokenWithMalformedContract(r)
    => /\ Range(calls[r]) \cap ContractReads = {}
       /\ ~Issued(r, "signTransaction")
       /\ ~Issued(r, "sendSignedTransaction")
       /\ pc[r] = "done" =>
            Failed(r, IF isAddress(AccountAddress(r)) THEN MsgIncorrectContract
                      ELSE IF op[r] = "web3.send" THEN MsgIncorrectRecipient
                      ELSE MsgIncorrectAddress)

\* C9 witness: a token send to a well-formed recipient rejected for its
\* contract address.
C9_Witness ==
  \E r \in Reqs :
    /\ TokenWithMalformedContract(r)
    /\ op[r] = "web3.send"
    /\ isAddress(dto[r].to_address)
    /\ Failed(r, MsgIncorrectContract)
    /\ calls[r] = <<>>

\* C10: token send gas limit: with no override (absent or not > 0) the gas
\* limit of the transaction record is estimatedGas + floor(estimatedGas / 2),
\* estimatedGas being the one dry-run estimate of the same transfer call; with
\* an override > 0 it is the override and no estimate call is made.
C10_TokenGasLimit ==
  \A r \in Reqs :
    (op[r] = "web3.send" /\ loc[r].transaction.kind = "token")
    => IF dto[r].gas_limit.present /\ dto[r].gas_limit.value > 0
       THEN /\ loc[r].transaction.gas = dto[r].gas_limit.value
            /\ ~Issued(r, "estimateGas")
       ELSE /\ Cardinality({i \in DOMAIN calls[r] : calls[r][i] = "estimateGas"}) = 1
            /\ loc[r].estimateCall = loc[r].transaction.data
            /\ loc[r].transaction.gas =
                 loc[r].estimateGas + loc[r].estimateGas \div 2

\* C10 witness: an override of 0 and an odd estimate of 3 give the limit 4.
C10_Witness ==
  \E r \in Reqs :
    /\ op[r] = "web3.send" /\ loc[r].transaction.kind = "token"
    /\ dto[r].gas_limit = [present |-> TRUE, value |-> 0]
    /\ loc[r].estimateGas = 3
    /\ loc[r].transaction.gas = 4

\* the total the affordability check of send compares the balance with, as
\* the claims about it state it
AmountPlusFee(r) ==
  HumanAdd(dto[r].amount,
           convertFromSatoshi(loc[r].feePerByte * loc[r].transactionSize))

AmountPlusFeePlusInputs(r) ==
  HumanAdd(dto[r].amount,
           convertFromSatoshi(loc[r].feePerByte * loc[r].transactionSize
                              + loc[r].feePerByte
                                * Len(loc[r].builtTransaction.ins)))

Listing(txs, address) ==
  {k \in 1..Len(txs) :
     \E i \in 1..Len(txs[k].outputs) : address \in txs[k].outputs[i].addresses}

\* C13 as stated: the prior output is taken from the most recent transaction
\* of the fetched history whose output list contains the source address;
\* whenever at least one transaction of the history has an output listing the
\* source address, resolution succeeds without the no-matching-output error.
C13_ResolvesWheneverSomeTransactionLists ==
  [][\A r \in Reqs :
       (/\ pc[r] = "btc.send.resolve" /\ pc'[r] # pc[r]
        /\ Listing(loc[r].data, loc[r].address) # {})
       => /\ pc'[r] = "btc.send.build"
          /\ \E k \in Listing(loc[r].data, loc[r].address) :
               /\ \A j \in Listing(loc[r].data, loc[r].address) : k >= j
               /\ loc'[r].previousTransactionHash = loc[r].data[k].hash]_vars

\* C13 amended: the prior output is taken from the last transaction of the
\* fetched history, whatever the earlier ones list: resolution succeeds if
\* and only if the history is not empty and its last transaction has an
\* output listing the source address, and then yields that transaction's
\* hash; otherwise send fails with the no-prior-transactions error (empty
\* history) or the no-matching-output error.
C13_ResolvesIffLastTransactionLists ==
  [][\A r \in Reqs :
       (pc[r] = "btc.send.resolve" /\ pc'[r] # pc[r])
       => LET txs == loc[r].data
              n == Len(txs)
          IN  IF n \in Listing(txs, loc[r].address)
              THEN /\ pc'[r] = "btc.send.build"
                   /\ loc'[r].previousTransactionHash = txs[n].hash
              ELSE /\ pc'[r] = "done"
                   /\ result'[r].kind = "failure"
                   /\ result'[r].message =
                        IF n = 0 THEN MsgNoPrevious ELSE MsgNoOutput]_vars

\* C13 witness: a fetched history whose first transaction has an output
\* listing the source address and whose last transaction has none.
C13_Witness ==
  \E r \in Reqs :
    /\ pc[r] = "btc.send.resolve"
    /\ Len(loc[r].data) = 2
    /\ Listing(loc[r].data, loc[r].address) = {1}

\* C18: UTXO send reaches the balance check and the broadcast only when the
\* resolved prior output index is 0: the built transaction has exactly one
\* output, and for every resolved index >= 1 send fails with the "Output with
\* index i does not exist." error after the input was signed and before any
\* balance lookup or broadcast.
C18_OnlyIndexZeroIsSpendable ==
  \A r \in Reqs :
    (op[r] = "btc.send" /\ loc[r].previousTransactionHash # "")
    => LET i == loc[r].previousOutputIndex
           past == \/ pc[r] \in {"btc.send.balance", "btc.send.push",
                                  "btc.send.pushing"}
                   \/ Issued(r, "dashboardAddress")
                   \/ Issued(r, "pushTransaction")
       IN  /\ i >= 0
           /\ past => i = 0 /\ Len(loc[r].builtTransaction.outs) = 1
           /\ i >= 1 =>
                \/ pc[r] = "btc.send.build"
                \/ /\ Failed(r, OutputMissing(i))
                   /\ Len(loc[r].builtTransaction.outs) = 1
                   /\ Len(loc[r].builtTransaction.sigs) = 1
                   /\ ~Issued(r, "dashboardAddress")
                   /\ ~Issued(r, "pushTransaction")

\* C18 witness: the prior output resolved is the second output of its
\* transaction; the send failed after signing, with no balance lookup.
C18_Witness ==
  \E r \in Reqs :
    /\ op[r] = "btc.send"
    /\ loc[r].previousOutputIndex = 1
    /\ Failed(r, "Output with index 1 does not exist.")
    /\ Len(loc[r].builtTransaction.sigs) = 1
    /\ calls[r][Len(calls[r])] = "addrsFull"

\* C19: UTXO send signs the input before the fee overwrite and serializes
\* after it: in every send that reaches broadcast the signature was made over
\* an output value of toAtomic(requestedAmount) while the serialization that
\* is broadcast carries that signature and the output value
\* feePerByte x byteSize; the outputs broadcast equal the outputs signed only
\* when the two values coincide.
C19_SignedBeforeOverwriteSerializedAfter ==
  \A r \in Reqs :
    (op[r] = "btc.send" /\ Issued(r, "pushTransaction"))
    => LET signature == loc[r].builtTransaction.sigs[1]
           hex == loc[r].hexTransaction
           amountValue == convertToSatoshi(dto[r].amount)
           feeValue == loc[r].feePerByte * loc[r].transactionSize
       IN  /\ Len(loc[r].builtTransaction.sigs) = 1
           /\ signature.outs[1].value = amountValue
           /\ hex[4] = <<signature>>
           /\ hex[3][1].value = feeValue
           /\ hex[3] = signature.outs <=> amountValue = feeValue

\* C19 witness: a broadcast whose signature covers 2 satoshi while the
\* serialized output carries 1 satoshi.
C19_Witness ==
  \E r \in Reqs :
    /\ op[r] = "btc.send" /\ Issued(r, "pushTransaction")
    /\ loc[r].builtTransaction.sigs[1].outs[1].value = 2
    /\ loc[r].hexTransaction[3][1].value = 1

\* reachable as well: a broadcast whose serialized outputs are the signed ones
\* (the amount is 2 satoshi and so is the fee)
CoincidingBroadcast ==
  \E r \in Reqs :
    /\ op[r] = "btc.send" /\ Issued(r, "pushTransaction")
    /\ loc[r].hexTransaction[3] = loc[r].builtTransaction.sigs[1].outs

\* the fee-rate resolution of a send that is past it, the override counting
\* as given when overrideGiven says so
FeeRateResolved(r, overrideGiven) ==
  IF overrideGiven
  THEN /\ loc[r].feePerByte = dto[r].fee.value
       /\ ~Issued(r, "feesRecommended")
  ELSE /\ calls[r][1] = "feesRecommended"
       /\ Cardinality({i \in DOMAIN calls[r] :
                         calls[r][i] = "feesRecommended"}) = 1
       /\ loc[r].feeResponse.kind \in {"ok", "error"}
       /\ loc[r].feeResponse.kind = "ok" =>
            loc[r].feePerByte = loc[r].feeResponse.hourFee
       /\ loc[r].feeResponse.kind = "error" =>
            /\ Failed(r, MsgNetwork)
            /\ calls[r] = <<"feesRecommended">>

PastFeeResolution(r) ==
  /\ op[r] = "btc.send"
  /\ pc[r] # "btc.send.fee"
  /\ ~Failed(r, MsgBadWIF)

\* C17 as stated: when a fee-per-byte override is present it is the rate
\* used and the estimator is never queried; when absent the estimator's
\* hourFee is the rate used; when the estimator is unreachable the send fails
\* with the fee-lookup error and performs no history lookup, no balance
\* lookup and no broadcast.
C17_OverridePresentIsUsed ==
  \A r \in Reqs :
    PastFeeResolution(r) => FeeRateResolved(r, dto[r].fee.present)

\* C17 amended: when a fee-per-byte override is present and not 0 it is the
\* rate used and the estimator is never queried; when it is absent or 0 the
\* estimator is queried once and its hourFee is the rate used; when the
\* estimator is unreachable the send fails with the fee-lookup error and
\* performs no history lookup, no balance lookup and no broadcast.
C17_NonZeroOverrideIsUsed ==
  \A r \in Reqs :
    PastFeeResolution(r)
    => FeeRateResolved(r, dto[r].fee.present /\ dto[r].fee.value # 0)

\* C17 witness: an override of 0; the estimator was queried and its hourFee
\* of 2 is the rate of the send, which went on to its balance check.
C17_Witness ==
  \E r \in Reqs :
    /\ op[r] = "btc.send"
    /\ dto[r].fee = [present |-> TRUE, value |-> 0]
    /\ loc[r].feeResponse = [kind |-> "ok", hourFee |-> 2]
    /\ loc[r].feePerByte = 2
    /\ loc[r].balanceRead

Lookups(r) ==
  Cardinality({i \in DOMAIN calls[r] : calls[r][i] = "dashboardTransaction"})

\* C16: transactions(address) looks the hashes of the address up strictly
\* one at a time (never two lookups outstanding), in the order of the list;
\* the list returned has one entry per hash, in the same order; the failure
\* of any one lookup fails the whole call, with no partial list returned.
C16_SequentialLookups ==
  \A r \in Reqs :
    op[r] = "btc.transactions"
    => LET l == loc[r]
           n == Len(l.transactionList)
       IN  /\ l.outstanding \in {0, 1}
           /\ l.outstanding = 1 <=> pc[r] = "btc.transactions.lookup"
           /\ n <= Len(l.transactions)
           /\ \A i \in 1..n :
                l.transactionList[i].transaction_id = l.transactions[i]
           /\ pc[r] # "done" => Lookups(r) = n + l.outstanding
           /\ (pc[r] = "done" /\ Lookups(r) = n) =>
                \/ result[r].kind = "failure" /\ Lookups(r) = 0
                \/ /\ result[r].kind = "success"
                   /\ n = Len(l.transactions)
                   /\ result[r].data = l.transactionList
           /\ (pc[r] = "done" /\ Lookups(r) # n) =>
                /\ Lookups(r) = n + 1
                /\ result[r] = Failure(MsgNetwork)

\* C16 witness: two hashes looked up one after the other, returned in the
\* order of the list.
C16_Witness ==
  \E r \in Reqs :
    /\ op[r] = "btc.transactions" /\ pc[r] = "done"
    /\ loc[r].transactions = <<"h2", "h1">>
    /\ result[r].kind = "success"
    /\ result[r].data = <<[transaction_id |-> "h2"], [transaction_id |-> "h1"]>>
    /\ Lookups(r) = 2

\* reachable as well: the second lookup fails after the first succeeded, and
\* the call fails without the entry already built
PartialListDropped ==
  \E r \in Reqs :
    /\ op[r] = "btc.transactions"
    /\ Len(loc[r].transactionList) = 1
    /\ Lookups(r) = 2
    /\ result[r] = Failure(MsgNetwork)

SendRequest(r) == op[r] \in {"btc.send", "web3.send"}

Times(r, api) == Cardinality({i \in DOMAIN calls[r] : calls[r][i] = api})

\* holds: every external step of a send is attempted at most once, the
\* broadcast included
EveryStepAtMostOnce ==
  \A r \in Reqs :
    SendRequest(r) => \A api \in Range(calls[r]) : Times(r, api) = 1

\* holds: a request that has its outcome takes no further step
NoStepAfterOutcome ==
  [][\A r \in Reqs :
       pc[r] = "done"
       => pc'[r] = "done" /\ calls'[r] = calls[r] /\ result'[r] = result[r]]_vars

Prefixes(steps) == {SubSeq(steps, 1, n) : n \in 0..Len(steps)}

\* holds: the external calls of a send are a prefix of the order of its
\* steps, so no step follows a step that failed
StepsInOrder ==
  \A r \in Reqs :
    /\ op[r] = "btc.send" =>
         calls[r] \in
           Prefixes(<<"feesRecommended", "addrsFull", "dashboardAddress",
                      "pushTransaction">>)
           \cup Prefixes(<<"addrsFull", "dashboardAddress", "pushTransaction">>)
    /\ op[r] = "web3.send" =>
         calls[r] \in
           Prefixes(<<"getTransactionCount", "signTransaction",
                      "sendSignedTransaction">>)
           \cup Prefixes(<<"decimals", "getGasPrice", "estimateGas",
                           "signTransaction", "sendSignedTransaction">>)
           \cup Prefixes(<<"decimals", "getGasPrice", "signTransaction",
                           "sendSignedTransaction">>)
           \cup Prefixes(<<"signTransaction">>)

\* C14: no retries and short-circuit, both engines: within one send request
\* every external step is attempted at most once, there is at most one
\* broadcast, and a request whose step failed ends as a failed outcome (the
\* soft rejection payload included) that carries the message of the failure:
\* for a failed broadcast the provider's text (the conflict text mapped to
\* the incomplete-transaction message) or the message of the transport error.
C14_NoRetryShortCircuit ==
  \A r \in Reqs :
    SendRequest(r)
    => /\ \A api \in Range(calls[r]) : Times(r, api) = 1
       /\ (pc[r] = "done" /\ result[r].kind # "success")
            => /\ result[r].kind \in {"failure", "soft"}
               /\ (op[r] = "btc.send" /\ loc[r].pushResponse.kind = "rejected")
                    => result[r].message = MapRejection(loc[r].pushResponse.text)
               /\ (op[r] = "btc.send" /\ loc[r].pushResponse.kind = "noresponse")
                    => result[r].message = MsgNetwork
               /\ (op[r] = "web3.send" /\ loc[r].submitted)
                    => result[r].message = loc[r].events[1].value

\* C15: account-model send, after submitting the signed payload, completes if
\* and only if the network emits a receipt or an error event: a call that has
\* returned has seen an event, a call whose payload has seen no event is
\* still waiting (there is no timeout and no cancellation), and once an event
\* is emitted the call returns.
C15_CompletesIffEventEmitted ==
  /\ [](\A r \in Reqs :
          (op[r] = "web3.send" /\ loc[r].submitted)
          => /\ pc[r] \in {"web3.send.wait", "done"}
             /\ pc[r] = "done" => loc[r].events # <<>>
             /\ loc[r].events = <<>> => result[r] = NoResult)
  /\ \A r \in Reqs :
       (op[r] = "web3.send" /\ loc[r].submitted /\ loc[r].events # <<>>)
       ~> (pc[r] = "done")

\* C15 witness: the payload is submitted, the network has emitted nothing,
\* and the call waits.
C15_Witness ==
  \E r \in Reqs :
    /\ op[r] = "web3.send" /\ loc[r].submitted
    /\ loc[r].events = <<>>
    /\ pc[r] = "web3.send.wait"
    /\ ~ENABLED Web3SendSettled(r)

\* refuted: every submitted send returns (it does not: the network may stay
\* silent for ever)
EverySubmittedSendReturns ==
  \A r \in Reqs :
    (op[r] = "web3.send" /\ loc[r].submitted) ~> (pc[r] = "done")

\* two sends of the same key whose history lookups both saw the same history
\* (neither lookup came after the explorer showed a broadcast the other had
\* not seen) and resolved a prior output
ConcurrentSends(r1, r2) ==
  /\ r1 # r2
  /\ op[r1] = "btc.send" /\ op[r2] = "btc.send"
  /\ dto[r1].private_key = dto[r2].private_key
  /\ loc[r1].previousTransactionHash # ""
  /\ loc[r2].previousTransactionHash # ""
  /\ loc[r1].txsLength = loc[r2].txsLength

PriorOutput(r) ==
  [hash |-> loc[r].previousTransactionHash, index |-> loc[r].previousOutputIndex]

\* C20: two concurrent UTXO sends from the same key whose history lookups
\* both happen before either broadcast shows in the explorer's history
\* resolve the identical prior output; nothing in the engine keeps the second
\* from its broadcast once the first has broadcast (the engine holds no state
\* that serializes or deduplicates sends of one key); the conflict is
\* detected by the provider only: the two are never both accepted, a send is
\* told of the conflict only by the provider's rejection of its broadcast,
\* which comes after the provider accepted the other, and it ends with the
\* incomplete-transaction message.
C20_ConcurrentSendsSpendSameOutput ==
  \A r1, r2 \in Reqs :
    ConcurrentSends(r1, r2)
    => /\ PriorOutput(r1) = PriorOutput(r2)
       /\ (Issued(r1, "pushTransaction") /\ pc[r2] = "btc.send.push")
            => ENABLED BtcSendPush(r2)
       /\ (Issued(r1, "pushTransaction") /\ Issued(r2, "pushTransaction"))
            => loc[r1].hexTransaction[2] = loc[r2].hexTransaction[2]
       /\ ~(loc[r1].pushResponse.kind = "ok" /\ loc[r2].pushResponse.kind = "ok")
       /\ result[r2].message = MsgConflictOut
            => /\ loc[r2].pushResponse = [kind |-> "rejected", text |-> MsgConflictIn]
               /\ loc[r1].pushResponse.kind = "ok"
       /\ loc[r2].pushResponse = [kind |-> "rejected", text |-> MsgConflictIn]
            => result[r2] = Soft(MsgConflictOut)

\* C20 witness: both sends resolved the same prior output and both broadcast
\* a transaction spending it; the provider accepted the first and rejected
\* the second for the conflict.
C20_Witness ==
  /\ ConcurrentSends(1, 2)
  /\ PriorOutput(1) = PriorOutput(2)
  /\ Issued(1, "pushTransaction") /\ Issued(2, "pushTransaction")
  /\ result[1].kind = "success"
  /\ result[2] = Soft(MsgConflictOut)

\* reachable as well: a send whose history lookup comes after the explorer
\* shows the other's broadcast resolves another prior output (an output of
\* that broadcast), and the provider accepts both
LaterLookupSeesBroadcast ==
  \E r1, r2 \in Reqs :
    /\ r1 # r2
    /\ op[r1] = "btc.send" /\ op[r2] = "btc.send"
    /\ loc[r2].txsLength = loc[r1].txsLength + 1
    /\ loc[r2].previousTransactionHash = "h9"
    /\ result[r1].kind = "success"
    /\ result[r2].kind = "success"

(***************************************************************************)
(* C11: the amount a token send encodes.                                   *)
(***************************************************************************)
\* the digits of amount.mant * 10^(amount.exp + decimal), computed exactly
ExactAtomicAmount(amount, decimal) ==
    IntegerString(ToDecimal(TimesPow10(Limbs(amount.mant),
                                       amount.exp + decimal)))

EncodedAmounts ==
    {<<dto[r].amount, loc[r].decimal, loc[r].transaction.data.amount>> :
        r \in {q \in Reqs : /\ op[q] = "web3.send"
                             /\ loc[q].transaction.kind = "token"}}

\* C11: in every token send that builds its transaction record, the amount
\* encoded in the transfer call is the plain digit string of
\* amount x 10^decimals (for decimals = 6 and amount 1.5, "1500000").
C11_EncodedAmountIsScaledAmount ==
    \A e \in EncodedAmounts : e[3] = ExactAtomicAmount(e[1], e[2])

\* the worked example of C11 does hold
C11_ExampleHolds ==
    \A e \in EncodedAmounts :
        (e[1] = Dec(15, -1) /\ e[2] = 6) => e[3] = "1500000"

C11_ExampleReached == <<Dec(15, -1), 6, "1500000">> \in EncodedAmounts

\* amount 1.1 with 18 decimals: the double product is 1100000000000000128
C11_RoundedAmountReached ==
    \E e \in EncodedAmounts :
        /\ e[1] = Dec(11, -1)
        /\ e[2] = 18
        /\ e[3] \in {"1100000000000000128", "1100000000000000100"}

=============================================================================
